---- MODULE Spec2Model ----
(***************************************************************************)
(* Model of plot_job_hours.py: the batch pipeline of main()                *)
(*   read_query_file -> execute_bigquery_query -> to_datetime -> filter    *)
(*   -> sort_values -> calculate_statistics -> save_raw_data               *)
(*   -> create_visualization -> write_html.                                *)
(*                                                                         *)
(* Numbers.  LaborHoursPerUnit and ProdStandard are held in tenths of an   *)
(* hour (7.5 h is 75, 50 h is 500).  A mean or a percentage is an exact    *)
(* fraction [num, den] in lowest terms.  NaN is the value pandas gives a   *)
(* NULL of the query result.                                               *)
(* Dates.  A raw StartDate is a string, [fmt |-> "str"] when it parses and *)
(* [fmt |-> "bad"] when it does not; pd.to_datetime gives [fmt |-> "ts"].  *)
(* Log.  Every logging call appends one entry; the loop over the counts by *)
(* ProdStandard is one entry that carries the number of its lines.         *)
(***************************************************************************)
EXTENDS Integers, Sequences, FiniteSets, TLC

VARIABLES pc, raw, df, stats, clock, ts, output_dir, html, fig, log, err,
          trace, pass, prev

vars == <<pc, raw, df, stats, clock, ts, output_dir, html, fig, log, err,
          trace, pass, prev>>

\* ------------------------------------------------------------- bounds
MaxRows == 2
MaxClock == 1

\* ---------------------------------------------------------- constants
\* df['LaborHoursPerUnit'] <= 50, in tenths of an hour
FilterLimit == 500
\* df['ProdStandard'] == 7.5 and add_hline(y=7.5), in tenths of an hour
TargetStandard == 75
\* the standard of the chart that was removed ("Removed 11.0 title")
OtherStandard == 110

NaN == -1

\* ------------------------------------------------------- input domain
Days == 1..2
BadDate == [fmt |-> "bad", day |-> 0]
RawDates == {[fmt |-> "str", day |-> d] : d \in Days} \cup {BadDate}

\* <<LaborHoursPerUnit, ProdStandard>> of the jobs a query returns: below, at
\* and above the own standard, at and above the filter limit, and a NULL
JobProfiles ==
  { <<50, TargetStandard>>, <<TargetStandard, TargetStandard>>, <<80, TargetStandard>>,
    <<80, OtherStandard>>, <<FilterLimit, TargetStandard>>, <<FilterLimit, OtherStandard>>,
    <<600, TargetStandard>>, <<NaN, TargetStandard>> }

\* a malformed date is tried on a job the filter keeps and on one it drops
RawRows ==
  ((RawDates \ {BadDate}) \X JobProfiles)
    \cup ({BadDate} \X { <<50, TargetStandard>>, <<600, TargetStandard>> })

\* the rows the query can return: JobNum identifies the row
TablesOfLen(n) ==
  { [i \in 1..n |-> [JobNum |-> i, StartDate |-> f[i][1],
                     LaborHoursPerUnit |-> f[i][2][1], ProdStandard |-> f[i][2][2]]] :
      f \in [1..n -> RawRows] }

Tables == UNION { TablesOfLen(n) : n \in 0..MaxRows }

\* ------------------------------------------------------------ helpers
RECURSIVE GCD(_, _)
GCD(a, b) == IF b = 0 THEN a ELSE GCD(b, a % b)

\* n / d in lowest terms; 0 / 0 is the NaN pandas gives an empty column
Frac(n, d) ==
  IF d = 0 THEN [num |-> 0, den |-> 0]
  ELSE LET g == GCD(n, d) IN [num |-> n \div g, den |-> d \div g]

RECURSIVE SumHours(_)
SumHours(s) == IF s = <<>> THEN 0 ELSE Head(s).LaborHoursPerUnit + SumHours(Tail(s))

RECURSIVE MaxHours(_)
MaxHours(s) ==
  IF s = <<>> THEN NaN
  ELSE IF Len(s) = 1 THEN Head(s).LaborHoursPerUnit
  ELSE LET m == MaxHours(Tail(s)) h == Head(s).LaborHoursPerUnit
       IN IF h > m THEN h ELSE m

RECURSIVE MinHours(_)
MinHours(s) ==
  IF s = <<>> THEN NaN
  ELSE IF Len(s) = 1 THEN Head(s).LaborHoursPerUnit
  ELSE LET m == MinHours(Tail(s)) h == Head(s).LaborHoursPerUnit
       IN IF h < m THEN h ELSE m

\* a comparison with NaN is False
Le(a, b) == a # NaN /\ b # NaN /\ a <= b
Gt(a, b) == a # NaN /\ b # NaN /\ a > b

\* pd.DataFrame(data): the columns come from the rows, an empty list has none
Columns(data) ==
  IF data = <<>> THEN {}
  ELSE {"JobNum", "StartDate", "LaborHoursPerUnit", "ProdStandard"}

\* pd.to_datetime of one value: a timestamp stays, a string is parsed
to_datetime(d) == [fmt |-> "ts", day |-> d.day]
Parseable(d) == d.fmt \in {"str", "ts"}

\* Series.dt.strftime('%Y-%m-%d') and the date as to_csv writes it
strftime(d) == [fmt |-> "str", day |-> d.day]

ParseColumn(t) == [i \in 1..Len(t) |-> [t[i] EXCEPT !.StartDate = to_datetime(t[i].StartDate)]]

\* df[df['LaborHoursPerUnit'] <= 50]
KeepRow(r) == Le(r.LaborHoursPerUnit, FilterLimit)
\* (mutant: the filtered frame is not assigned back to df)
FilterRowsDiscarded(t) == t
FilterRows(t) == SelectSeq(t, KeepRow)

\* df[df['ProdStandard'] == 7.5]
IsTarget(r) == r.ProdStandard = TargetStandard
Subset75(t) == SelectSeq(t, IsTarget)

\* (mutant: every row is compared with 7.5 instead of its own standard)
OverRowFixedStandard(r) == Gt(r.LaborHoursPerUnit, TargetStandard)
\* df[df['LaborHoursPerUnit'] > df['ProdStandard']]
OverRow(r) == Gt(r.LaborHoursPerUnit, r.ProdStandard)
OverStandard(t) == SelectSeq(t, OverRow)

\* df.sort_values('StartDate'): kind='quicksort' is not a stable sort, so the
\* rows that share a StartDate come out in an order the call does not fix
Reorderings(t) ==
  { [i \in 1..Len(t) |-> t[p[i]]] :
      p \in { q \in [1..Len(t) -> 1..Len(t)] : \A i, j \in 1..Len(t) : i # j => q[i] # q[j] } }

IsSortedByDate(t) == \A i, j \in 1..Len(t) : i < j => t[i].StartDate.day <= t[j].StartDate.day

sort_values(t) == { s \in Reorderings(t) : IsSortedByDate(s) }

\* round(n / d) to the nearest integer, a tie to the even one (format())
RoundHalfEven(n, d) ==
  LET q == n \div d
      r == n % d
  IN IF 2 * r < d THEN q
     ELSE IF 2 * r > d THEN q + 1
     ELSE IF q % 2 = 0 THEN q ELSE q + 1

\* Series.mean(), .max() and .min() skip NaN
HasHours(r) == r.LaborHoursPerUnit # NaN
NotNaN(t) == SelectSeq(t, HasHours)

\* calculate_statistics(df): the aggregates of an empty column are NaN
calculate_statistics(t) ==
  [ Total   |-> Len(t),
    Average |-> Frac(SumHours(NotNaN(t)), Len(NotNaN(t))),
    Max     |-> MaxHours(NotNaN(t)),
    Min     |-> MinHours(NotNaN(t)),
    Over    |-> Len(OverStandard(t)),
    Percent |-> Frac(Len(OverStandard(t)) * 100, Len(t)) ]

NoStats == [ Total |-> -1, Average |-> Frac(0, 1), Max |-> 0, Min |-> 0,
             Over |-> 0, Percent |-> Frac(0, 1) ]

\* (mutant: the division gives NaN, as a float division of numpy would)
ZeroDivisionSilent(t) == FALSE
\* len(...) / len(df) on line 48 divides two Python ints: ZeroDivisionError
ZeroDivision(t) == Len(t) = 0

\* f"{x:.2f}" of a fraction of tenths of an hour, in hundredths of an hour
Fixed2(x) == IF x.den = 0 THEN NaN ELSE RoundHalfEven(10 * x.num, x.den)
\* f"{x:.1f}%" of a percentage, in tenths of a percent
Fixed1(x) == IF x.den = 0 THEN NaN ELSE RoundHalfEven(10 * x.num, x.den)

Bar(r) == [x |-> r.JobNum, y |-> r.LaborHoursPerUnit, text |-> strftime(r.StartDate)]

\* (mutant: the mean of the plotted rows only)
average_line_of_bars(t, s) == Frac(SumHours(NotNaN(Subset75(t))), Len(NotNaN(Subset75(t))))
\* the y of the dashed reference line: stats['Average Labor Hours Per Unit']
average_line(t, s) == s.Average

\* create_visualization(df, stats): the bar trace, the two hlines, the table
create_visualization(t, s) ==
  [ bars   |-> [i \in 1..Len(Subset75(t)) |-> Bar(Subset75(t)[i])],
    hlines |-> [standard |-> TargetStandard, average |-> average_line(t, s)],
    cells  |-> << [metric |-> "Total Jobs", value |-> s.Total],
                  [metric |-> "Average Labor Hours/Unit", value |-> Fixed2(s.Average)],
                  [metric |-> "Max Labor Hours/Unit", value |-> Fixed2(Frac(s.Max, 1))],
                  [metric |-> "Min Labor Hours/Unit", value |-> Fixed2(Frac(s.Min, 1))],
                  [metric |-> "Jobs Over Standard", value |-> s.Over],
                  [metric |-> "Percentage Over Standard", value |-> Fixed1(s.Percent)] >> ]

NoFig == [ bars |-> <<>>, hlines |-> [standard |-> 0, average |-> Frac(0, 1)], cells |-> <<>> ]

\* DataFrame.to_csv(index=False): one line per row, the date written out
CsvRow(r) == [r EXCEPT !.StartDate = strftime(r.StartDate)]
to_csv(t) == [i \in 1..Len(t) |-> CsvRow(t[i])]

\* (mutant: the second name is built from a second datetime.now())
stats_filename_second_reading == [stem |-> "job_hours_stats", stamp |-> clock]
\* the two names save_raw_data derives from its one datetime.now()
data_filename == [stem |-> "job_hours_data", stamp |-> ts']
stats_filename == [stem |-> "job_hours_stats", stamp |-> ts]

\* ------------------------------------------------------------ logging
Entry(level, msg, e, n) == [level |-> level, msg |-> msg, e |-> e, n |-> n]
Info(msg, n) == Entry("INFO", msg, "", n)
Error(msg, e) == Entry("ERROR", msg, e.type, 0)

Exc(type, at) == [type |-> type, at |-> at]
NoErr == Exc("", "")

\* (mutant: save_raw_data re-raises without logging)
StageErrorLogSaveSilent(stage, e) ==
  IF stage = "read" THEN << Error("Error reading query file", e) >>
  ELSE IF stage = "query" THEN << Error("Error querying BigQuery", e) >>
  ELSE << >>
\* the logging.error of the except clause around the failing stage, if any
StageErrorLog(stage, e) ==
  IF stage = "read" THEN << Error("Error reading query file", e) >>
  ELSE IF stage = "query" THEN << Error("Error querying BigQuery", e) >>
  ELSE IF stage \in {"write_data", "write_stats"} THEN << Error("Error saving data", e) >>
  ELSE << >>

\* ------------------------------------------------------- control flow
Order == << "read", "query", "parse", "filter", "sort", "stats",
            "write_data", "write_stats", "render", "write_html" >>

\* (mutant: main filters before it converts the dates)
NextStageFilterFirst(stage) ==
  LET swapped == << "read", "query", "filter", "parse", "sort", "stats",
                    "write_data", "write_stats", "render", "write_html" >>
      i == CHOOSE k \in 1..Len(swapped) : swapped[k] = stage
  IN IF i = Len(swapped) THEN "done" ELSE swapped[i + 1]
\* the statement of main that follows a stage
NextStage(stage) ==
  LET i == CHOOSE k \in 1..Len(Order) : Order[k] = stage
  IN IF i = Len(Order) THEN "done" ELSE Order[i + 1]

\* a stage returns: main goes on to the next statement
Return(stage) ==
  /\ pc' = NextStage(stage)
  /\ trace' = Append(trace, stage)
  /\ err' = err

\* (mutant: the except clause logs and does not re-raise, main goes on)
RaiseSwallowed(stage, e) ==
  /\ pc' = NextStage(stage)
  /\ trace' = Append(trace, stage)
  /\ err' = e
  /\ log' = log \o StageErrorLog(stage, e)
\* a stage raises e: its own except clause (if it has one) logs and re-raises,
\* then main's except clause logs and re-raises; nothing else of main runs
Raise(stage, e) ==
  /\ pc' = "failed"
  /\ trace' = Append(trace, stage)
  /\ err' = e
  /\ log' = log \o StageErrorLog(stage, e) \o << Error("Error in main execution", e) >>

File(complete, body) == [complete |-> complete, body |-> body]

\* ------------------------------------------------------------- states
Init ==
  /\ pc = "read"
  /\ raw = << >>
  /\ df = << >>
  /\ stats = NoStats
  /\ clock = 0
  /\ ts = 0
  /\ output_dir = << >>
  /\ html = << >>
  /\ fig = NoFig
  /\ log = << >>
  /\ err = NoErr
  /\ trace = << >>
  /\ pass = 1
  /\ prev = << >>

\* ------------------------------------------------------------ actions
\* read_query_file()
ReadQueryFile ==
  /\ pc = "read"
  /\ \/ Return("read") /\ log' = log
     \/ Raise("read", Exc("OSError", "read_query_file"))
  /\ UNCHANGED <<raw, df, stats, clock, ts, output_dir, html, fig, pass, prev>>

\* execute_bigquery_query(query), and main's "Initial data count"
ExecuteQuery ==
  /\ pc = "query"
  /\ \/ \E t \in Tables :
          /\ raw' = t
          /\ df' = t
          /\ Return("query")
          /\ log' = log \o << Info("Retrieved records from BigQuery", Len(t)),
                              Info("Initial data count", Len(t)) >>
     \/ /\ Raise("query", Exc("GoogleAPIError", "execute_bigquery_query"))
        /\ UNCHANGED <<raw, df>>
  /\ UNCHANGED <<stats, clock, ts, output_dir, html, fig, pass, prev>>

\* df['StartDate'] = pd.to_datetime(df['StartDate'])
ParseDates ==
  /\ pc = "parse"
  /\ IF "StartDate" \notin Columns(raw)
       THEN Raise("parse", Exc("KeyError", "main")) /\ df' = df
     ELSE IF \E i \in 1..Len(df) : ~Parseable(df[i].StartDate)
       THEN Raise("parse", Exc("ValueError", "to_datetime")) /\ df' = df
     ELSE /\ df' = ParseColumn(df)
          /\ Return("parse")
          /\ log' = log
  /\ UNCHANGED <<raw, stats, clock, ts, output_dir, html, fig, pass, prev>>

\* the filter of main, its count of removed records, the counts by standard
FilterTable ==
  /\ pc = "filter"
  /\ df' = FilterRows(df)
  /\ LET filtered_count == Len(df) - Len(df')
     IN log' = log
          \o (IF filtered_count > 0
                THEN << Info("Filtered out records with LaborHoursPerUnit > 50", filtered_count) >>
                ELSE << >>)
          \o << Info("Records by Production Standard",
                     Cardinality({df'[i].ProdStandard : i \in 1..Len(df')})) >>
  /\ Return("filter")
  /\ UNCHANGED <<raw, stats, clock, ts, output_dir, html, fig, pass, prev>>

\* df = df.sort_values('StartDate')
SortTable ==
  /\ pc = "sort"
  /\ \E s \in sort_values(df) : df' = s
  /\ Return("sort")
  /\ UNCHANGED <<raw, stats, clock, ts, output_dir, html, fig, log, pass, prev>>

\* stats = calculate_statistics(df)
CalculateStatistics ==
  /\ pc = "stats"
  /\ IF ZeroDivision(df)
       THEN Raise("stats", Exc("ZeroDivisionError", "calculate_statistics")) /\ stats' = stats
       ELSE stats' = calculate_statistics(df) /\ Return("stats") /\ log' = log
  /\ UNCHANGED <<raw, df, clock, ts, output_dir, html, fig, pass, prev>>

\* save_raw_data, first half: makedirs, the timestamp, the data file
WriteData ==
  /\ pc = "write_data"
  /\ ts' = clock
  /\ \/ /\ output_dir' = (data_filename :> File(TRUE, to_csv(df))) @@ output_dir
        /\ Return("write_data")
        /\ log' = log \o << Info("Raw data saved", ts') >>
     \/ \E partial \in BOOLEAN :
          /\ output_dir' = IF partial THEN (data_filename :> File(FALSE, << >>)) @@ output_dir
                           ELSE output_dir
          /\ Raise("write_data", Exc("OSError", "save_raw_data"))
  /\ UNCHANGED <<raw, df, stats, clock, html, fig, pass, prev>>

\* save_raw_data, second half: the statistics file
WriteStats ==
  /\ pc = "write_stats"
  /\ \/ /\ output_dir' = (stats_filename :> File(TRUE, << stats >>)) @@ output_dir
        /\ Return("write_stats")
        /\ log' = log \o << Info("Statistics saved", stats_filename.stamp) >>
     \/ \E partial \in BOOLEAN :
          /\ output_dir' = IF partial THEN (stats_filename :> File(FALSE, << >>)) @@ output_dir
                           ELSE output_dir
          /\ Raise("write_stats", Exc("OSError", "save_raw_data"))
  /\ UNCHANGED <<raw, df, stats, clock, ts, html, fig, pass, prev>>

\* fig = create_visualization(df, stats)
Render ==
  /\ pc = "render"
  /\ \/ /\ fig' = create_visualization(df, stats)
        /\ Return("render")
        /\ log' = log
     \/ /\ Raise("render", Exc("Exception", "create_visualization"))
        /\ fig' = fig
  /\ UNCHANGED <<raw, df, stats, clock, ts, output_dir, html, pass, prev>>

\* fig.write_html('job_hours_analysis.html')
WriteHtml ==
  /\ pc = "write_html"
  /\ \/ /\ html' = << File(TRUE, fig) >>
        /\ Return("write_html")
        /\ log' = log \o << Info("Visualization has been saved", 0) >>
     \/ \E partial \in BOOLEAN :
          /\ html' = IF partial THEN << File(FALSE, NoFig) >> ELSE html
          /\ Raise("write_html", Exc("OSError", "write_html"))
  /\ UNCHANGED <<raw, df, stats, clock, ts, output_dir, fig, pass, prev>>

\* the wall clock moves on between the two writes of save_raw_data
Tick ==
  /\ pc = "write_stats"
  /\ clock < MaxClock
  /\ clock' = clock + 1
  /\ UNCHANGED <<pc, raw, df, stats, ts, output_dir, html, fig, log, err, trace, pass, prev>>

Next ==
  \/ ReadQueryFile
  \/ ExecuteQuery
  \/ ParseDates
  \/ FilterTable
  \/ SortTable
  \/ CalculateStatistics
  \/ WriteData
  \/ WriteStats
  \/ Render
  \/ WriteHtml
  \/ Tick

Spec == Init /\ [][Next]_vars

\* --------------------------------------- the Cleaner applied a second time
InitClean ==
  /\ pc = "parse"
  /\ raw \in Tables
  /\ df = raw
  /\ stats = NoStats
  /\ clock = 0
  /\ ts = 0
  /\ output_dir = << >>
  /\ html = << >>
  /\ fig = NoFig
  /\ log = << >>
  /\ err = NoErr
  /\ trace = << >>
  /\ pass = 1
  /\ prev = << >>

\* the cleaned table is handed to the Cleaner again
CleanAgain ==
  /\ pc = "stats"
  /\ pass = 1
  /\ pass' = 2
  /\ prev' = df
  /\ pc' = "parse"
  /\ UNCHANGED <<raw, df, stats, clock, ts, output_dir, html, fig, log, err, trace>>

NextClean ==
  \/ ParseDates
  \/ FilterTable
  \/ SortTable
  \/ CleanAgain

SpecClean == InitClean /\ [][NextClean]_vars

\* ------------------------------------------------------------- claims
Ran(stage) == \E i \in 1..Len(trace) : trace[i] = stage
Failed(stage) == pc = "failed" /\ trace # << >> /\ trace[Len(trace)] = stage
CleanerDone == Ran("sort")
StageIndex(stage) == CHOOSE k \in 1..Len(Order) : Order[k] = stage

Parsed(r) == [r EXCEPT !.StartDate = [fmt |-> "ts", day |-> r.StartDate.day]]
Over50(r) == r.LaborHoursPerUnit # NaN /\ r.LaborHoursPerUnit > FilterLimit
Occurrences(t, r) == Cardinality({ j \in 1..Len(t) : t[j] = r })

DataName == [stem |-> "job_hours_data", stamp |-> ts]
StatsName == [stem |-> "job_hours_stats", stamp |-> ts]
HasFile(name) == name \in DOMAIN output_dir /\ output_dir[name].complete
ErrorEntries == SelectSeq(log, LAMBDA en : en.level = "ERROR")

\* C1 (as claimed): once the Cleaner has run, the table holds exactly the
\* fetched records whose LaborHoursPerUnit is not greater than 50, each once
\* and with its fields (the date parsed), in non-decreasing StartDate order.
C1_CleanerKeepsAllNotOver50 ==
  CleanerDone =>
    /\ \A i \in 1..Len(raw) :
         Occurrences(df, Parsed(raw[i])) = (IF Over50(raw[i]) THEN 0 ELSE 1)
    /\ \A j \in 1..Len(df) : \E i \in 1..Len(raw) : df[j] = Parsed(raw[i])
    /\ IsSortedByDate(df)

\* the sum of LaborHoursPerUnit over every row of t
HoursTotal(t) ==
  LET acc[i \in 0..Len(t)] == IF i = 0 THEN 0 ELSE acc[i - 1] + t[i].LaborHoursPerUnit
  IN acc[Len(t)]

HoursOf(t) == [i \in 1..Len(t) |-> t[i].LaborHoursPerUnit]
StandardsOf(t) == [i \in 1..Len(t) |-> t[i].ProdStandard]
StatsComputed == Ran("stats") /\ ~Failed("stats")

\* C2: for a non-empty cleaned table the snapshot holds the row count, the
\* arithmetic mean, the maximum and the minimum of LaborHoursPerUnit over all
\* rows, the number of rows above their own ProdStandard and that number as
\* a percentage of the row count; rows (5, 7.5) and (8, 7.5) give
\* 2, 6.5, 8, 5, 1 and 50.0.
C2_StatisticsOfTable ==
  StatsComputed =>
    /\ Len(df) > 0
    /\ stats.Total = Len(df)
    /\ stats.Average.den > 0
    /\ stats.Average.num * Len(df) = HoursTotal(df) * stats.Average.den
    /\ \E i \in 1..Len(df) : df[i].LaborHoursPerUnit = stats.Max
    /\ \E i \in 1..Len(df) : df[i].LaborHoursPerUnit = stats.Min
    /\ \A i \in 1..Len(df) : /\ df[i].LaborHoursPerUnit <= stats.Max
                             /\ df[i].LaborHoursPerUnit >= stats.Min
    /\ stats.Over = Cardinality({ i \in 1..Len(df) : df[i].LaborHoursPerUnit > df[i].ProdStandard })
    /\ stats.Percent.den > 0
    /\ stats.Percent.num * stats.Total = stats.Over * 100 * stats.Percent.den
    /\ (HoursOf(df) = <<50, 80>> /\ StandardsOf(df) = <<75, 75>>) =>
         stats = [ Total |-> 2, Average |-> [num |-> 65, den |-> 1], Max |-> 80,
                   Min |-> 50, Over |-> 1, Percent |-> [num |-> 50, den |-> 1] ]

C2_Witness ==
  /\ StatsComputed
  /\ Len(df) = 2
  /\ \E i \in 1..2 : df[i].ProdStandard = OtherStandard /\ df[i].LaborHoursPerUnit = 80
  /\ \E i \in 1..2 : df[i].LaborHoursPerUnit = df[i].ProdStandard

NoDuplicates(t) == \A i, j \in 1..Len(t) : i # j => t[i] # t[j]
LastStage == trace[Len(trace)]
RaisedBy ==
  [ s \in { Order[k] : k \in 1..Len(Order) } |->
      IF s = "read" THEN {Exc("OSError", "read_query_file")}
      ELSE IF s = "query" THEN {Exc("GoogleAPIError", "execute_bigquery_query")}
      ELSE IF s = "parse" THEN {Exc("KeyError", "main"), Exc("ValueError", "to_datetime")}
      ELSE IF s = "stats" THEN {Exc("ZeroDivisionError", "calculate_statistics")}
      ELSE IF s \in {"write_data", "write_stats"} THEN {Exc("OSError", "save_raw_data")}
      ELSE IF s = "render" THEN {Exc("Exception", "create_visualization")}
      ELSE IF s = "write_html" THEN {Exc("OSError", "write_html")}
      ELSE {} ]

\* C4: a run ends completed, with the data CSV, the statistics CSV and the
\* report all written, or failed, with the error of the failing stage
\* propagated unchanged; after a failure no stage runs, none is retried, and
\* no output that comes after the failing stage has been written.
C4_CompletedOrFailed ==
  /\ (~ENABLED Next) <=> pc \in {"done", "failed"}
  /\ NoDuplicates(trace)
  /\ pc = "done" =>
       /\ err = NoErr
       /\ HasFile(DataName) /\ HasFile(StatsName)
       /\ html # << >> /\ html[1].complete
  /\ pc # "failed" => err = NoErr
  /\ pc = "failed" =>
       /\ err \in RaisedBy[LastStage]
       /\ log[Len(log)] = Error("Error in main execution", err)
       /\ StageIndex(LastStage) < StageIndex("write_data") => output_dir = << >>
       /\ StageIndex(LastStage) < StageIndex("write_stats") =>
            \A n \in DOMAIN output_dir : n.stem # "job_hours_stats"
       /\ StageIndex(LastStage) < StageIndex("write_html") => html = << >>
       /\ StageIndex(LastStage) < StageIndex("render") => fig = NoFig
       /\ StageIndex(LastStage) <= StageIndex("stats") => stats = NoStats

C4_Witness ==
  /\ Failed("write_stats")
  /\ HasFile(DataName)
  /\ html = << >>

\* C5 (as claimed): every failed run logged one error in the failing stage
\* and then one error at the top level.
C5_StageThenTopLevelError ==
  pc = "failed" =>
    /\ Len(ErrorEntries) = 2
    /\ ErrorEntries[1].msg # "Error in main execution"
    /\ ErrorEntries[2] = Error("Error in main execution", err)

\* C5 (amended): a failure in read_query_file, execute_bigquery_query or
\* save_raw_data is logged by that function and then by main; a failure in
\* the Cleaner, calculate_statistics, create_visualization or write_html is
\* logged by main alone.
C5_ErrorLogOfFailedRun ==
  pc = "failed" =>
    LET top == Error("Error in main execution", err)
    IN IF LastStage = "read"
         THEN ErrorEntries = << Error("Error reading query file", err), top >>
       ELSE IF LastStage = "query"
         THEN ErrorEntries = << Error("Error querying BigQuery", err), top >>
       ELSE IF LastStage \in {"write_data", "write_stats"}
         THEN ErrorEntries = << Error("Error saving data", err), top >>
       ELSE ErrorEntries = << top >>

C5_Witness ==
  /\ Failed("write_stats")
  /\ Len(ErrorEntries) = 2
  /\ ErrorEntries[1].msg = "Error saving data"

SaveSucceeded == Ran("write_stats") /\ ~Failed("write_stats")

\* C6: a successful save_raw_data leaves exactly two files in the output
\* directory, job_hours_data_<ts>.csv and job_hours_stats_<ts>.csv with the
\* same suffix from one clock reading; the data file has one row per record
\* of the table, in table order, the statistics file one row with the six
\* snapshot values.
C6_TwoFilesOneTimestamp ==
  SaveSucceeded =>
    /\ Cardinality(DOMAIN output_dir) = 2
    /\ \E t \in 0..clock :
         DOMAIN output_dir = { [stem |-> "job_hours_data", stamp |-> t],
                               [stem |-> "job_hours_stats", stamp |-> t] }
    /\ \A n \in DOMAIN output_dir : output_dir[n].complete
    /\ \A n \in DOMAIN output_dir :
         n.stem = "job_hours_data" =>
           /\ Len(output_dir[n].body) = Len(df)
           /\ \A i \in 1..Len(df) :
                /\ output_dir[n].body[i].JobNum = df[i].JobNum
                /\ output_dir[n].body[i].LaborHoursPerUnit = df[i].LaborHoursPerUnit
                /\ output_dir[n].body[i].ProdStandard = df[i].ProdStandard
                /\ output_dir[n].body[i].StartDate.day = df[i].StartDate.day
                /\ output_dir[n].body[i].StartDate.fmt = "str"
    /\ \A n \in DOMAIN output_dir :
         n.stem = "job_hours_stats" =>
           /\ Len(output_dir[n].body) = 1
           /\ output_dir[n].body[1] = stats

C6_Witness ==
  /\ SaveSucceeded
  /\ clock > ts
  /\ Len(df) = MaxRows

\* C7 (as claimed): the Cleaner applied to its own output returns it as it
\* is, the rows that share a StartDate in the same order.
C7_CleanerIdempotent ==
  (pass = 2 /\ pc = "stats") => df = prev

IsPrefix(a, b) == Len(a) <= Len(b) /\ \A i \in 1..Len(a) : a[i] = b[i]
BadDateIn(t) == \E i \in 1..Len(t) : t[i].StartDate.fmt = "bad"

\* C8: the stages run in the order read, query, parse, filter, sort,
\* statistics, data CSV, statistics CSV, render, report, each at most once and
\* only after the one before it returned; a malformed date fails the run
\* before the filter, whatever the record's hours; the report is written only
\* with both CSV files on disk, and a failure of the rendering leaves the
\* CSV files and no report.
C8_StagesInOrder ==
  /\ IsPrefix(trace, Order)
  /\ pc = "failed" \/ pc = (IF Len(trace) = Len(Order) THEN "done" ELSE Order[Len(trace) + 1])
  /\ pc = "failed" => trace # << >>
  /\ Ran("query") => Ran("read")
  /\ (Ran("parse") /\ BadDateIn(raw)) => Failed("parse") /\ df = raw
  /\ html # << >> => HasFile(DataName) /\ HasFile(StatsName)
  /\ Failed("render") => HasFile(DataName) /\ HasFile(StatsName) /\ html = << >>

C8_Witness ==
  /\ Failed("parse")
  /\ \E i \in 1..Len(raw) : raw[i].StartDate.fmt = "bad" /\ Over50(raw[i])
  /\ \E i \in 1..Len(raw) : raw[i].StartDate.fmt # "bad" /\ ~Over50(raw[i])

FigBuilt == Ran("render") /\ ~Failed("render")
TargetRows(t) == { i \in 1..Len(t) : t[i].ProdStandard = TargetStandard }
\* the k-th row of t whose ProdStandard is the target
TargetRow(t, k) ==
  CHOOSE i \in TargetRows(t) : Cardinality({ j \in TargetRows(t) : j <= i }) = k

\* C9: the figure has one bar for each cleaned record whose ProdStandard is
\* 7.5 and for no other, in table order; a reference line at 7.5 and one at
\* the mean of LaborHoursPerUnit over all cleaned records; and the six
\* snapshot fields in its table.
C9_FigureOfTable ==
  FigBuilt =>
    /\ Len(fig.bars) = Cardinality(TargetRows(df))
    /\ \A k \in 1..Len(fig.bars) :
         /\ fig.bars[k].x = df[TargetRow(df, k)].JobNum
         /\ fig.bars[k].y = df[TargetRow(df, k)].LaborHoursPerUnit
         /\ fig.bars[k].text.day = df[TargetRow(df, k)].StartDate.day
    /\ fig.hlines.standard = TargetStandard
    /\ fig.hlines.average.den > 0
    /\ fig.hlines.average.num * Len(df) = HoursTotal(df) * fig.hlines.average.den
    /\ [i \in 1..Len(fig.cells) |-> fig.cells[i].metric] =
         << "Total Jobs", "Average Labor Hours/Unit", "Max Labor Hours/Unit",
            "Min Labor Hours/Unit", "Jobs Over Standard", "Percentage Over Standard" >>
    /\ fig.cells[1].value = stats.Total
    /\ \* two decimals: within half a hundredth of an hour of the mean
       LET v == fig.cells[2].value a == stats.Average
       IN 2 * (v * a.den - 10 * a.num) \in (0 - a.den)..a.den
    /\ fig.cells[3].value = 10 * stats.Max
    /\ fig.cells[4].value = 10 * stats.Min
    /\ fig.cells[5].value = stats.Over
    /\ LET v == fig.cells[6].value a == stats.Percent
       IN 2 * (v * a.den - 10 * a.num) \in (0 - a.den)..a.den

C9_Witness ==
  /\ FigBuilt
  /\ Len(df) = 2
  /\ Len(fig.bars) = 1
  /\ df[1].ProdStandard = OtherStandard
  /\ df[1].LaborHoursPerUnit # df[2].LaborHoursPerUnit

\* C10: from the end of the Cleaner on, every row has LaborHoursPerUnit <= 50
\* and the table is sorted by StartDate; calculate_statistics, save_raw_data
\* and create_visualization change neither the table nor the snapshot; the
\* statistics CSV and the report table show the values of the snapshot, which
\* are those of the rows written to the data CSV.
C10_TableAndSnapshotFrozen ==
  /\ [](CleanerDone =>
          /\ \A i \in 1..Len(df) : /\ df[i].LaborHoursPerUnit # NaN
                                   /\ df[i].LaborHoursPerUnit <= FilterLimit
          /\ IsSortedByDate(df))
  /\ [][CleanerDone => df' = df]_vars
  /\ [][StatsComputed => stats' = stats]_vars
  /\ [](pc = "done" =>
          /\ output_dir[StatsName].body = << stats >>
          /\ Len(output_dir[DataName].body) = stats.Total
          /\ stats.Average.num * stats.Total
               = HoursTotal(output_dir[DataName].body) * stats.Average.den
          /\ stats.Over = Cardinality({ i \in 1..stats.Total :
                 LET r == output_dir[DataName].body[i]
                 IN r.LaborHoursPerUnit > r.ProdStandard })
          /\ html[1].body.cells[1].value = stats.Total
          /\ html[1].body.cells[5].value = stats.Over
          /\ html[1].body.cells[3].value = 10 * stats.Max
          /\ html[1].body.cells[4].value = 10 * stats.Min
          /\ html[1].body.hlines.average = stats.Average)

C10_Witness ==
  /\ pc = "done"
  /\ Len(raw) = MaxRows
  /\ Len(df) = MaxRows - 1
  /\ \E i \in 1..Len(df) : df[i].LaborHoursPerUnit = FilterLimit

====
